---- MODULE Spec2Model ----
(***************************************************************************)
(* The offline asset synchronisation subsystem of the Liora app            *)
(* (AssetProvider in src/src/data/loadAnimals.js, lines 45-321): the       *)
(* Version Guard (checkDownloadStatus / clearAllData), the Manifest Loader *)
(* (loadManifest), the Download Orchestrator (downloadCategory,            *)
(* prefetchUrls, downloadAllCategories) and the read-only queries.         *)
(*                                                                         *)
(* The code is single-threaded and cooperative.  Every `await` is a        *)
(* suspension point, so one action of the model is: the awaited operation  *)
(* completes and the synchronous code after it runs up to the next await.  *)
(* An IndexedDB request and the continuation of its await form one step:   *)
(* the continuation runs in the microtask checkpoint of the request's      *)
(* success event, before any other event is delivered.  An await that has  *)
(* no effect on shared state (openDB in initializeDB, response.json()) is  *)
(* folded into the step before it.                                         *)
(***************************************************************************)
EXTENDS Integers, Sequences, FiniteSets, TLC

\* ------------------------------------------------------------------ bounds
\* How many entries of the priority list the model keeps (the list has 10).
NumPriority == 2
\* How many API invocations (downloadCategory / downloadAllCategories) a
\* session makes; they may overlap in time or follow one another.
MaxCalls == 2

\* ------------------------------------------------------- program constants
FullPriority ==
  <<"Farm", "Domestic", "Forest", "Shallow Water", "Coral Reef",
    "Jungle", "Nocturnal", "Arctic", "Deep Sea", "Ultra Deep Sea">>

CATEGORY_PRIORITY == SubSeq(FullPriority, 1, NumPriority)

PriorityNames == {CATEGORY_PRIORITY[i] : i \in 1..Len(CATEGORY_PRIORITY)}

\* A category name that is not in the priority list: downloadCategory takes
\* any string.
OtherName == "Savanna"

CategoryNames == PriorityNames \cup {OtherName}

\* concurrency: 6 in the call of prefetchUrls
Concurrency == 6

\* The static content index (animals.json): one item per modelled category.
animalsData ==
  <<[id |-> "cow", category |-> "Farm"],
    [id |-> "dog", category |-> "Domestic"]>>

\* The version the remote manifest reports, and the one an older session
\* may have stored.
RemoteVersion == 2
OldVersion == 1
NoVersion == 0

\* /assets/manifest.json as the code reads it: assets[id].files[role].
\* "cow" has an entry with one real path and one empty path, "dog" one with
\* one path.
Manifest ==
  [version |-> RemoteVersion,
   assets |-> [id \in {"cow", "dog"} |->
                 IF id = "cow"
                 THEN [files |-> <<"images/toy_mode/cow_v2.webp", "">>]
                 ELSE [files |-> <<"audio/names/dog_v2.mp3">>]]]

\* A manifest whose assets[id] is the role -> path map itself, without the
\* "files" level line 231 reads.
RoleManifest ==
  [version |-> RemoteVersion,
   assets |-> [id \in {"cow", "dog"} |->
                 IF id = "cow"
                 THEN [toy_image |-> "images/toy_mode/cow_v2.webp",
                       name_audio |-> "audio/names/cow_v2.mp3"]
                 ELSE [name_audio |-> "audio/names/dog_v2.mp3"]]]

NoManifest == [version |-> NoVersion, assets |-> <<>>]

\* The document the server has at /assets/manifest.json.
ServedManifest(shape) == IF shape = "roles" THEN RoleManifest ELSE Manifest

\* Cache namespaces of the origin.
LioraCache == "liora-assets"
WorkboxCache == "workbox-precache-v2"
ForeignCache == "fonts-cache"

\* cacheName.includes('liora') || cacheName.includes('workbox')
IsAppCache(name) == name \in {LioraCache, WorkboxCache}

\* ------------------------------------------------------------------- state
VARIABLES
  categories,            \* object store 'categories' (keyPath 'name')
  metaVersion,           \* object store 'metadata', key 'version' (NoVersion: absent)
  cacheNames,            \* the names caches.keys() returns
  cacheGen,              \* identity of the Cache object now named liora-assets
  cacheContent,          \* Cache object -> the URLs it holds
  downloadedCategories,  \* useState(new Set())
  downloadingCategory,   \* useState(null)
  downloadProgress,      \* useState(0): a fraction <<numerator, denominator>>
  isInitialDownload,     \* useState(true)
  currentVersion,        \* useState(null)
  manifestRef,           \* useRef(null)
  guard,                 \* the one checkDownloadStatus run of the session
  calls,                 \* the API invocations of the session
  clock,                 \* Date.now()
  manifestUp,            \* whether /assets/manifest.json can be fetched this session
  callLimit,             \* how many API invocations the session makes
  faulty,                \* whether store and cache operations can fail this session
  guardFaulty,           \* whether store and cache operations of the guard can fail
  concurrency,           \* the concurrency option prefetchUrls is called with
  hung,                  \* the url position whose fetch never returns (0: none)
  resolution,            \* one run of the url resolution of downloadCategory
  soundCache,            \* soundCacheRef.current: key -> Howl (AudioContext.jsx:14)
  cacheOrder,            \* cacheOrderRef.current (AudioContext.jsx:15)
  loading,               \* keys whose first Howl has its load under way
  requested              \* the keys requested so far, the latest request last

vars ==
  <<categories, metaVersion, cacheNames, cacheGen, cacheContent,
    downloadedCategories, downloadingCategory, downloadProgress,
    isInitialDownload, currentVersion, manifestRef, guard, calls, clock,
    manifestUp, callLimit, faulty, guardFaulty, concurrency, hung, resolution,
    soundCache, cacheOrder, loading, requested>>

audioVars == <<soundCache, cacheOrder, loading, requested>>

envVars ==
  <<manifestUp, callLimit, faulty, guardFaulty, concurrency, hung, resolution,
    audioVars>>

\* The AudioProvider at mount (AudioContext.jsx lines 14-15).
AudioIdle ==
  /\ soundCache = <<>>
  /\ cacheOrder = <<>>
  /\ loading = {}
  /\ requested = <<>>

storeVars == <<categories, metaVersion, cacheNames, cacheGen, cacheContent>>

Calls == 1..MaxCalls

NoCategory == "null"

\* ----------------------------------------------------------- pure helpers
Range(s) == {s[i] : i \in 1..Len(s)}

Min(a, b) == IF a < b THEN a ELSE b

\* The template literals of downloadCategory, kept as <<prefix, id, suffix>>.
ManifestUrl(relPath) == <<"/assets/", relPath, "">>
ToyUrl(id) == <<"/assets/images/toy_mode/", id, ".webp">>
RealUrl(id) == <<"/assets/images/real_mode/", id, ".webp">>
NameUrl(id) == <<"/assets/audio/names/", id, "_name.mp3">>
FactUrl(id) == <<"/assets/audio/facts/", id, "_fact.mp3">>

\* A faulty convention that leaves the fact audio out.
ConventionUrlsWithoutFact(id) == <<ToyUrl(id), RealUrl(id), NameUrl(id)>>

ConventionUrls(id) == <<ToyUrl(id), RealUrl(id), NameUrl(id), FactUrl(id)>>

\* for (const relPath of Object.values(entry.files)) if (relPath) urls.push(...)
RECURSIVE FileUrls(_)
FileUrls(files) ==
  IF files = <<>> THEN <<>>
  ELSE IF Head(files) # ""
       THEN <<ManifestUrl(Head(files))>> \o FileUrls(Tail(files))
       ELSE FileUrls(Tail(files))

\* entry?.files ? manifest paths : the four convention paths
AnimalUrls(id, manifest) ==
  IF /\ manifest # NoManifest
     /\ id \in DOMAIN manifest.assets
     /\ "files" \in DOMAIN manifest.assets[id]
  THEN FileUrls(manifest.assets[id].files)
  ELSE ConventionUrls(id)

\* animalsData.filter(a => a.category === categoryName), then the loop that
\* fills urls.
RECURSIVE ResolveFrom(_, _, _)
ResolveFrom(animals, categoryName, manifest) ==
  IF animals = <<>> THEN <<>>
  ELSE IF Head(animals).category = categoryName
       THEN AnimalUrls(Head(animals).id, manifest)
              \o ResolveFrom(Tail(animals), categoryName, manifest)
       ELSE ResolveFrom(Tail(animals), categoryName, manifest)

ResolveUrls(categoryName, manifest) ==
  ResolveFrom(animalsData, categoryName, manifest)

AnimalIds(categoryName) ==
  {animalsData[i].id : i \in {j \in 1..Len(animalsData) :
                                 animalsData[j].category = categoryName}}

\* db.put('categories', record): upsert by key 'name'.
PutCategory(store, record) ==
  {r \in store : r.name # record.name} \cup {record}

RecordNames(store) == {r.name : r \in store}

\* getDownloadProgress: (downloaded / totalCategories) * 100, as a fraction.
GetDownloadProgress(downloaded) ==
  <<Cardinality(downloaded) * 100, Len(CATEGORY_PRIORITY)>>

IsCategoryDownloaded(categoryName) == categoryName \in downloadedCategories

\* Fractions <<n, d>> with d > 0.
FracEq(a, b) == a[1] * b[2] = b[1] * a[2]
FracLeq(a, b) == a[1] * b[2] <= b[1] * a[2]
Zero == <<0, 1>>
Hundred == <<100, 1>>

\* ------------------------------------------------------------------- Init
IdleCall ==
  [kind |-> "none", pc |-> "idle", cat |-> NoCategory,
   closDl |-> {}, closInit |-> TRUE, loop |-> 0,
   needFetch |-> FALSE, manifest |-> NoManifest,
   urls |-> <<>>, st |-> <<>>, nextIndex |-> 0, done |-> 0,
   lastReport |-> 0, handle |-> 0,
   netFetched |-> {}, fetched |-> FALSE, wroteCache |-> FALSE,
   wroteRecord |-> FALSE, failed |-> FALSE, shortCircuit |-> FALSE,
   afterResolved |-> FALSE, aborted |-> FALSE]

IdleResolution ==
  [animals |-> <<>>, shape |-> "files", cat |-> NoCategory, failed |-> FALSE,
   urls |-> <<>>, applied |-> FALSE]

\* What an earlier session left behind: a version marker or none, records
\* for some priority categories, and their assets in liora-assets.
StoredRecord(name) ==
  [name |-> name, downloadedAt |-> 0,
   animalCount |-> Len(ResolveUrls(name, NoManifest))]

StoredUrls(names) ==
  UNION {Range(ResolveUrls(n, NoManifest)) : n \in names}

InitSession ==
  /\ \E names \in SUBSET PriorityNames :
       /\ categories = {StoredRecord(n) : n \in names}
       /\ cacheContent = [g \in 0..1 |-> IF g = 0 THEN StoredUrls(names) ELSE {}]
  /\ metaVersion \in {NoVersion, OldVersion, RemoteVersion}
  /\ cacheNames = {LioraCache, WorkboxCache, ForeignCache}
  /\ cacheGen = 0
  /\ downloadedCategories = {}
  /\ downloadingCategory = NoCategory
  /\ downloadProgress = Zero
  /\ isInitialDownload = TRUE
  /\ currentVersion = NoVersion
  /\ manifestRef = NoManifest
  /\ guard = [pc |-> "fetch", remote |-> NoVersion, toDelete |-> <<>>,
              outcome |-> "running", loadedDuring |-> FALSE,
              failedAt |-> "none"]
  /\ calls = [c \in Calls |-> IdleCall]
  /\ clock = 1
  /\ resolution = IdleResolution
  /\ AudioIdle

\* A session whose store and cache operations all succeed.
Init ==
  /\ InitSession
  /\ \/ manifestUp = TRUE /\ callLimit = MaxCalls
     \/ manifestUp = FALSE /\ callLimit = MaxCalls - 1
  /\ faulty = FALSE
  /\ guardFaulty = FALSE
  /\ concurrency = Concurrency
  /\ hung = 0

\* ---------------------------------------------------------- Version Guard
\* A faulty guard that fails closed: a failed check starts the purge.
OnVersionCheckFailedPurging(g) ==
  [g EXCEPT !.pc = "clearCategories", !.outcome = "unknown"]

\* checkDownloadStatus, lines 95-98: fetch('/assets/manifest.json'),
\* response.ok, response.json().  A failure of any of the three lands in
\* the catch of line 117, and the function goes on to line 121.
OnVersionCheckFailed(g) == [g EXCEPT !.pc = "load", !.outcome = "unknown"]

GuardFetch ==
  /\ guard.pc = "fetch"
  /\ \E ok \in (IF manifestUp THEN BOOLEAN ELSE {FALSE}) :
       guard' = IF ok
                THEN [guard EXCEPT !.pc = "readVersion", !.remote = Manifest.version]
                ELSE OnVersionCheckFailed(guard)
  /\ UNCHANGED <<storeVars, downloadedCategories, downloadingCategory,
                 downloadProgress, isInitialDownload, currentVersion,
                 manifestRef, calls, clock, envVars>>

\* Whether an operation of the store or the cache that the guard awaits
\* inside its try block (lines 95-116) may fail at this point.
GuardFailures == IF guardFaulty THEN BOOLEAN ELSE {FALSE}

\* A faulty handler that writes the marker although the operation failed.
OnGuardFailureMarking(g, at) ==
  [g EXCEPT !.pc = "putVersion", !.outcome = "failed", !.failedAt = at,
            !.toDelete = <<>>]

\* The catch of line 117 for an error of the store or the cache: it is
\* logged, what is left of the try block is skipped, and the function
\* goes on to line 121.
OnGuardFailure(g, at) ==
  [g EXCEPT !.pc = "load", !.outcome = "failed", !.failedAt = at,
            !.toDelete = <<>>]

GuardCaught(at) ==
  /\ guard' = OnGuardFailure(guard, at)
  /\ UNCHANGED <<storeVars, downloadedCategories, downloadingCategory,
                 downloadProgress, isInitialDownload, currentVersion,
                 manifestRef, calls, clock, envVars>>

\* A faulty comparison that takes an absent marker for a stale one.
VersionMismatchOrAbsent(stored, remote) == stored # remote

\* storedVersion && storedVersion.value !== remoteVersion (line 104)
VersionMismatch(stored, remote) == stored # NoVersion /\ stored # remote

\* lines 101-116: db.get('metadata', 'version') and the comparison.
GuardCompare ==
  /\ guard.pc = "readVersion"
  /\ \E fails \in GuardFailures :
       IF fails
       THEN GuardCaught("readVersion")
       ELSE /\ IF VersionMismatch(metaVersion, guard.remote)
               THEN /\ guard' = [guard EXCEPT !.pc = "clearCategories", !.outcome = "purging"]
                    /\ UNCHANGED currentVersion
               ELSE IF metaVersion = NoVersion
               THEN /\ guard' = [guard EXCEPT !.pc = "putFirst"]
                    /\ UNCHANGED currentVersion
               ELSE /\ guard' = [guard EXCEPT !.pc = "load", !.outcome = "clean"]
                    /\ currentVersion' = guard.remote
            /\ UNCHANGED <<storeVars, downloadedCategories, downloadingCategory,
                           downloadProgress, isInitialDownload, manifestRef, calls,
                           clock, envVars>>

\* lines 112-116: first run ever, db.put('metadata', version).
GuardPutFirst ==
  /\ guard.pc = "putFirst"
  /\ \E fails \in GuardFailures :
       IF fails
       THEN GuardCaught("putFirst")
       ELSE /\ metaVersion' = guard.remote
            /\ currentVersion' = guard.remote
            /\ guard' = [guard EXCEPT !.pc = "load", !.outcome = "clean"]
            /\ UNCHANGED <<categories, cacheNames, cacheGen, cacheContent,
                           downloadedCategories, downloadingCategory, downloadProgress,
                           isInitialDownload, manifestRef, calls, clock, envVars>>

\* clearAllData, line 187: db.clear('categories').
GuardClearCategories ==
  /\ guard.pc = "clearCategories"
  /\ \E fails \in GuardFailures :
       IF fails
       THEN GuardCaught("clearCategories")
       ELSE /\ categories' = {}
            /\ guard' = [guard EXCEPT !.pc = "clearAnimals"]
            /\ UNCHANGED <<metaVersion, cacheNames, cacheGen, cacheContent,
                           downloadedCategories, downloadingCategory, downloadProgress,
                           isInitialDownload, currentVersion, manifestRef, calls, clock,
                           envVars>>

\* clearAllData, line 188: db.clear('animals'); nothing ever writes that store.
GuardClearAnimals ==
  /\ guard.pc = "clearAnimals"
  /\ \E fails \in GuardFailures :
       IF fails
       THEN GuardCaught("clearAnimals")
       ELSE /\ guard' = [guard EXCEPT !.pc = "cacheKeys"]
            /\ UNCHANGED <<storeVars, downloadedCategories, downloadingCategory,
                           downloadProgress, isInitialDownload, currentVersion,
                           manifestRef, calls, clock, envVars>>

\* The names of a caches.keys() snapshot that the loop of lines 192-196
\* deletes, in the order of the snapshot.
MatchingCaches(names) ==
  SelectSeq(<<LioraCache, WorkboxCache, ForeignCache>>,
            LAMBDA n : n \in names /\ IsAppCache(n))

\* clearAllData, lines 198-200, and the return into line 107, where
\* db.put('metadata', ...) is issued.
GuardResetState ==
  /\ downloadedCategories' = {}
  /\ isInitialDownload' = TRUE

\* clearAllData, line 191: caches.keys().
GuardCacheKeys ==
  /\ guard.pc = "cacheKeys"
  /\ \E fails \in GuardFailures :
       IF fails
       THEN GuardCaught("cacheKeys")
       ELSE /\ LET del == MatchingCaches(cacheNames) IN
                 IF del = <<>>
                 THEN /\ guard' = [guard EXCEPT !.pc = "putVersion"]
                      /\ GuardResetState
                 ELSE /\ guard' = [guard EXCEPT !.pc = "deleteCaches", !.toDelete = del]
                      /\ UNCHANGED <<downloadedCategories, isInitialDownload>>
            /\ UNCHANGED <<storeVars, downloadingCategory, downloadProgress,
                           currentVersion, manifestRef, calls, clock, envVars>>

\* caches.delete(name): the name is gone; a Cache object a download still
\* holds keeps its entries but is no longer reachable by name.
DeleteCache(name) ==
  /\ cacheNames' = cacheNames \ {name}
  /\ cacheGen' = IF name = LioraCache /\ name \in cacheNames /\ cacheGen < 1
                 THEN cacheGen + 1 ELSE cacheGen

\* clearAllData, line 194, once per matching name; after the last one the
\* state is reset.
GuardDeleteCache ==
  /\ guard.pc = "deleteCaches"
  /\ \E fails \in GuardFailures :
       IF fails
       THEN GuardCaught(Head(guard.toDelete))
       ELSE /\ DeleteCache(Head(guard.toDelete))
            /\ IF Tail(guard.toDelete) = <<>>
               THEN /\ guard' = [guard EXCEPT !.pc = "putVersion", !.toDelete = <<>>]
                    /\ GuardResetState
               ELSE /\ guard' = [guard EXCEPT !.toDelete = Tail(guard.toDelete)]
                    /\ UNCHANGED <<downloadedCategories, isInitialDownload>>
            /\ UNCHANGED <<categories, metaVersion, cacheContent, downloadingCategory,
                           downloadProgress, currentVersion, manifestRef, calls, clock,
                           envVars>>

\* lines 107-109: the marker is written after the purge, then return.
GuardPutVersion ==
  /\ guard.pc = "putVersion"
  /\ \E fails \in GuardFailures :
       IF fails
       THEN GuardCaught("putVersion")
       ELSE /\ metaVersion' = guard.remote
            /\ currentVersion' = guard.remote
            /\ guard' = [guard EXCEPT !.pc = "done", !.outcome = "purged"]
            /\ UNCHANGED <<categories, cacheNames, cacheGen, cacheContent,
                           downloadedCategories, downloadingCategory, downloadProgress,
                           isInitialDownload, manifestRef, calls, clock, envVars>>

\* A faulty load that only knows the records the session started with.
LoadedNamesAtStartup(store) == {r.name : r \in {x \in store : x.downloadedAt = 0}}

\* lines 121-129: db.getAll('categories') and the state it sets.
LoadedNames(store) == RecordNames(store)

GuardLoad ==
  /\ guard.pc = "load"
  /\ downloadedCategories' = LoadedNames(categories)
  /\ isInitialDownload' =
       ~(Cardinality(LoadedNames(categories)) >= Len(CATEGORY_PRIORITY))
  /\ guard' = [guard EXCEPT !.pc = "done",
                            !.loadedDuring =
                               \E c \in Calls : calls[c].pc \notin {"idle", "done"}]
  /\ UNCHANGED <<storeVars, downloadingCategory, downloadProgress,
                 currentVersion, manifestRef, calls, clock, envVars>>

GuardStep ==
  \/ GuardFetch
  \/ GuardCompare
  \/ GuardPutFirst
  \/ GuardClearCategories
  \/ GuardClearAnimals
  \/ GuardCacheKeys
  \/ GuardDeleteCache
  \/ GuardPutVersion
  \/ GuardLoad

\* ---------------------------------------------------- Download Orchestrator
HasRecord(store, categoryName) == \E r \in store : r.name = categoryName

\* A faulty loop that goes to the last category the closure's set lacks.
NextLoopLast(closDl, from) ==
  LET rest == {i \in from..Len(CATEGORY_PRIORITY) : CATEGORY_PRIORITY[i] \notin closDl}
  IN IF rest = {} THEN Len(CATEGORY_PRIORITY) + 1
     ELSE CHOOSE i \in rest : \A j \in rest : i >= j

\* The first priority index >= from whose category the closure's set lacks
\* (line 275), or Len + 1 when the loop of line 274 is over.
NextLoop(closDl, from) ==
  LET rest == {i \in from..Len(CATEGORY_PRIORITY) : CATEGORY_PRIORITY[i] \notin closDl}
  IN IF rest = {} THEN Len(CATEGORY_PRIORITY) + 1
     ELSE CHOOSE i \in rest : \A j \in rest : i <= j

\* A downloadCategory invocation begins: line 204 reads the set of the
\* render the function closes over; then initializeDB and db.get are awaited.
EnterDownload(call, categoryName) ==
  [call EXCEPT !.cat = categoryName,
               !.pc = "check",
               !.needFetch = FALSE, !.manifest = NoManifest,
               !.urls = <<>>, !.st = <<>>, !.nextIndex = 0, !.done = 0,
               !.lastReport = 0, !.handle = 0,
               !.netFetched = {}, !.fetched = FALSE, !.wroteCache = FALSE,
               !.wroteRecord = FALSE, !.failed = FALSE,
               !.shortCircuit = FALSE,
               !.afterResolved = FALSE,
               !.aborted = FALSE]

\* downloadCategory returns: to the caller, or into line 278 of
\* downloadAllCategories (the 100 ms pause).
ReturnFrom(call) ==
  [call EXCEPT !.pc = IF call.kind = "all" THEN "pause" ELSE "done",
               !.urls = <<>>, !.st = <<>>, !.nextIndex = 0, !.done = 0,
               !.lastReport = 0, !.handle = 0, !.netFetched = {},
               !.needFetch = FALSE, !.manifest = NoManifest]

\* Some downloadCategory invocation for categoryName has already returned.
ResolvedFor(categoryName) ==
  \E d \in Calls : calls[d].pc \in {"done", "pause"} /\ calls[d].cat = categoryName

\* A UI collaborator calls downloadCategory(categoryName), line 203-204.
CallDownloadCategory(c, categoryName) ==
  /\ calls[c].pc = "idle"
  /\ c <= callLimit
  /\ \A d \in Calls : d < c => calls[d].pc # "idle"
  /\ LET closure == [calls[c] EXCEPT !.kind = "one",
                                     !.closDl = downloadedCategories,
                                     !.closInit = isInitialDownload]
         entered == [EnterDownload(closure, categoryName) EXCEPT
                       !.afterResolved = ResolvedFor(categoryName)]
     IN calls' = [calls EXCEPT ![c] =
                    IF categoryName \in closure.closDl
                    THEN [entered EXCEPT !.pc = "done", !.shortCircuit = TRUE]
                    ELSE entered]
  /\ UNCHANGED <<storeVars, downloadedCategories, downloadingCategory,
                 downloadProgress, isInitialDownload, currentVersion,
                 manifestRef, guard, clock, envVars>>

\* A UI collaborator calls downloadAllCategories(), lines 273-276: the loop
\* runs to its first category the closure's set lacks; with none, line 282.
CallDownloadAll(c) ==
  /\ calls[c].pc = "idle"
  /\ c <= callLimit
  /\ \A d \in Calls : d < c => calls[d].pc # "idle"
  /\ LET closure == [calls[c] EXCEPT !.kind = "all",
                                     !.closDl = downloadedCategories,
                                     !.closInit = isInitialDownload]
         i == NextLoop(closure.closDl, 1)
     IN IF i > Len(CATEGORY_PRIORITY)
        THEN /\ calls' = [calls EXCEPT ![c] = [closure EXCEPT !.pc = "done", !.loop = i]]
             /\ isInitialDownload' = FALSE
        ELSE /\ calls' = [calls EXCEPT ![c] =
                            [EnterDownload(closure, CATEGORY_PRIORITY[i]) EXCEPT !.loop = i]]
             /\ UNCHANGED isInitialDownload
  /\ UNCHANGED <<storeVars, downloadedCategories, downloadingCategory,
                 downloadProgress, currentVersion, manifestRef, guard, clock,
                 envVars>>

\* downloadAllCategories, lines 278-282: the pause is over; the next
\* category the closure's set lacks, or the end of the loop.
AllResume(c) ==
  /\ calls[c].pc = "pause"
  /\ LET i == NextLoop(calls[c].closDl, calls[c].loop + 1)
     IN IF i > Len(CATEGORY_PRIORITY)
        THEN /\ calls' = [calls EXCEPT ![c] = [calls[c] EXCEPT !.pc = "done", !.loop = i]]
             /\ isInitialDownload' = FALSE
        ELSE /\ calls' = [calls EXCEPT ![c] =
                            [EnterDownload(calls[c], CATEGORY_PRIORITY[i]) EXCEPT !.loop = i]]
             /\ UNCHANGED isInitialDownload
  /\ UNCHANGED <<storeVars, downloadedCategories, downloadingCategory,
                 downloadProgress, currentVersion, manifestRef, guard, clock,
                 envVars>>

\* prefetchUrls is entered with the resolved urls (lines 227-249): with no
\* url it returns at once (line 142) and the record is written next;
\* otherwise caches.open is awaited.
WithUrls(call, manifest) ==
  LET urls == ResolveUrls(call.cat, manifest)
  IN [call EXCEPT !.manifest = manifest,
                  !.needFetch = FALSE,
                  !.urls = urls,
                  !.pc = IF urls = <<>> THEN "record" ELSE "open"]

\* The precondition check of lines 208-215 (db.get), and past it lines
\* 220-225: the state is set and loadManifest reads manifestRef.
PreconditionHolds(store, call) == HasRecord(store, call.cat)

\* Whether an operation of the store or the cache may fail at this point.
Failures == IF faulty THEN BOOLEAN ELSE {FALSE}

\* The catch of line 216: a failed initializeDB or db.get is ignored and
\* the download goes on as if no record were stored.
OnPreconditionFailure(call) ==
  IF manifestRef # NoManifest
  THEN WithUrls(call, manifestRef)
  ELSE [call EXCEPT !.pc = "manifest", !.needFetch = TRUE]

\* A faulty handler that lets the error escape to the caller.
OnDownloadFailureRejecting(call) ==
  [call EXCEPT !.aborted = TRUE, !.pc = "rejected"]

\* The catch of line 265 and the finally block of lines 267-270: the error
\* is logged and the call returns normally.
OnDownloadFailure(call) ==
  ReturnFrom([call EXCEPT !.aborted = TRUE])

DownloadCheck(c) ==
  /\ calls[c].pc = "check"
  /\ \E storeFails \in Failures :
       IF ~storeFails /\ PreconditionHolds(categories, calls[c])
       THEN /\ downloadedCategories' = downloadedCategories \cup {calls[c].cat}
            /\ isInitialDownload' = IF calls[c].closInit THEN FALSE ELSE isInitialDownload
            /\ calls' = [calls EXCEPT ![c] =
                           ReturnFrom([calls[c] EXCEPT !.shortCircuit = TRUE])]
            /\ UNCHANGED <<downloadingCategory, downloadProgress>>
       ELSE /\ downloadingCategory' = calls[c].cat
            /\ downloadProgress' = Zero
            /\ calls' = [calls EXCEPT ![c] = OnPreconditionFailure(calls[c])]
            /\ UNCHANGED <<downloadedCategories, isInitialDownload>>
  /\ UNCHANGED <<storeVars, currentVersion, manifestRef, guard, clock, envVars>>

\* loadManifest, lines 134-138, and the catch of line 225: the fetch ends;
\* a manifest that loaded is memoized.
DownloadManifest(c) ==
  /\ calls[c].pc = "manifest"
  /\ IF manifestUp
     THEN /\ manifestRef' = Manifest
          /\ calls' = [calls EXCEPT ![c] = WithUrls(calls[c], Manifest)]
     ELSE /\ UNCHANGED manifestRef
          /\ calls' = [calls EXCEPT ![c] = WithUrls(calls[c], NoManifest)]
  /\ UNCHANGED <<storeVars, downloadedCategories, downloadingCategory,
                 downloadProgress, isInitialDownload, currentVersion, guard,
                 clock, envVars>>

\* A faulty pool of one worker per url.
PoolSizeOnePerUrl(n) == n

\* prefetchUrls, lines 144-152 and 181: caches.open creates the cache when
\* the name is missing; min(concurrency, urls.length) workers start, each
\* takes the next index and issues cache.match.
PoolSize(n) == Min(concurrency, n)

DownloadOpen(c) ==
  /\ calls[c].pc = "open"
  /\ \E openFails \in Failures :
       IF openFails
       THEN /\ calls' = [calls EXCEPT ![c] = OnDownloadFailure(calls[c])]
            /\ downloadingCategory' = NoCategory
            /\ downloadProgress' = Zero
            /\ UNCHANGED cacheNames
       ELSE /\ cacheNames' = cacheNames \cup {LioraCache}
            /\ LET n == Len(calls[c].urls)
                   w == PoolSize(n)
               IN calls' = [calls EXCEPT ![c] =
                              [calls[c] EXCEPT !.pc = "pass",
                                               !.handle = cacheGen,
                                               !.st = [i \in 1..n |-> IF i <= w THEN "match" ELSE "queued"],
                                               !.nextIndex = w,
                                               !.done = 0,
                                               !.lastReport = 0]]
            /\ UNCHANGED <<downloadingCategory, downloadProgress>>
  /\ UNCHANGED <<categories, metaVersion, cacheGen, cacheContent,
                 downloadedCategories, isInitialDownload, currentVersion,
                 manifestRef, guard, clock, envVars>>

\* A faulty throttle without the final-completion clause.
ShouldReportOnTimeOnly(elapsed, done, total) == elapsed

\* now - lastUiUpdate > 150 || done === urls.length (line 170)
ShouldReport(elapsed, done, total) == elapsed \/ done = total

\* A faulty pool whose shared index is read but not advanced.
WorkerFinallyRetaking(call, i, elapsed) ==
  LET total == Len(call.urls)
      done == call.done + 1
      idx == call.nextIndex - 1
      st1 == [call.st EXCEPT ![i] = "done"]
      st2 == IF idx < total THEN [st1 EXCEPT ![idx + 1] = "match"] ELSE st1
  IN [call EXCEPT !.st = st2,
                  !.done = done,
                  !.lastReport = IF ShouldReport(elapsed, done, total)
                                 THEN done ELSE call.lastReport,
                  !.pc = IF \A j \in 1..total : st2[j] = "done"
                         THEN "record" ELSE "pass"]

\* A faulty pool whose workers end after one url.
WorkerFinallyOnce(call, i, elapsed) ==
  LET total == Len(call.urls)
      done == call.done + 1
      st1 == [call.st EXCEPT ![i] = "done"]
  IN [call EXCEPT !.st = st1,
                  !.done = done,
                  !.lastReport = IF ShouldReport(elapsed, done, total)
                                 THEN done ELSE call.lastReport,
                  !.pc = IF \A j \in 1..total : st1[j] = "done"
                         THEN "record" ELSE "pass"]

\* A faulty pool: the workers are never joined, the pass never ends.
WorkerFinallyUnjoined(call, i, elapsed) ==
  LET total == Len(call.urls)
      done == call.done + 1
      idx == call.nextIndex
      st1 == [call.st EXCEPT ![i] = "done"]
      st2 == IF idx < total THEN [st1 EXCEPT ![idx + 1] = "match"] ELSE st1
  IN [call EXCEPT !.st = st2,
                  !.done = done,
                  !.nextIndex = idx + 1,
                  !.lastReport = IF ShouldReport(elapsed, done, total)
                                 THEN done ELSE call.lastReport]

\* The finally block of a worker (lines 166-177) for position i, then the
\* head of its loop (lines 151-153): the worker takes the next index or
\* returns; when the last worker has returned, Promise.all resolves (line 182).
WorkerFinally(call, i, elapsed) ==
  LET total == Len(call.urls)
      done == call.done + 1
      idx == call.nextIndex
      st1 == [call.st EXCEPT ![i] = "done"]
      st2 == IF idx < total THEN [st1 EXCEPT ![idx + 1] = "match"] ELSE st1
  IN [call EXCEPT !.st = st2,
                  !.done = done,
                  !.nextIndex = idx + 1,
                  !.lastReport = IF ShouldReport(elapsed, done, total)
                                 THEN done ELSE call.lastReport,
                  !.pc = IF \A j \in 1..total : st2[j] = "done"
                         THEN "record" ELSE "pass"]

\* onProgress of lines 246-248, when the finally block calls it.
ProgressAfter(call, elapsed) ==
  LET total == Len(call.urls)
      done == call.done + 1
  IN IF ShouldReport(elapsed, done, total) /\ total > 0
     THEN <<done * 100, total>>
     ELSE downloadProgress

\* A faulty strict worker: a failed asset ends the call with no record.
OnAssetFailureAborting(call, i, elapsed) ==
  ReturnFrom([call EXCEPT !.failed = TRUE])

\* Lines 164-166: a failed asset is ignored and counts as done.
OnAssetFailure(call, i, elapsed) ==
  WorkerFinally([call EXCEPT !.failed = TRUE], i, elapsed)

\* cache.match(url), lines 157-159: a hit ends the position, a miss issues
\* fetch(url).
WorkerMatch(c, i) ==
  /\ calls[c].pc = "pass"
  /\ i \in DOMAIN calls[c].st
  /\ calls[c].st[i] = "match"
  /\ \E matchFails \in Failures :
       IF matchFails
       THEN \E elapsed \in BOOLEAN :
              /\ calls' = [calls EXCEPT ![c] = OnAssetFailure(calls[c], i, elapsed)]
              /\ downloadProgress' = ProgressAfter(calls[c], elapsed)
       ELSE IF calls[c].urls[i] \in cacheContent[calls[c].handle]
       THEN \E elapsed \in BOOLEAN :
              /\ calls' = [calls EXCEPT ![c] = WorkerFinally(calls[c], i, elapsed)]
              /\ downloadProgress' = ProgressAfter(calls[c], elapsed)
       ELSE /\ calls' = [calls EXCEPT ![c] =
                           [calls[c] EXCEPT !.st[i] = "fetch",
                                            !.fetched = TRUE,
                                            !.netFetched = @ \cup {calls[c].urls[i]}]]
            /\ UNCHANGED downloadProgress
  /\ UNCHANGED <<storeVars, downloadedCategories, downloadingCategory,
                 isInitialDownload, currentVersion, manifestRef, guard, clock,
                 envVars>>

\* fetch(url) ends, lines 159-165: an ok response issues cache.put; a
\* non-ok response or a network error ends the position.
WorkerFetch(c, i) ==
  /\ calls[c].pc = "pass"
  /\ i \in DOMAIN calls[c].st
  /\ calls[c].st[i] = "fetch"
  /\ i # hung
  /\ \E ok \in BOOLEAN :
       IF ok
       THEN /\ calls' = [calls EXCEPT ![c] = [calls[c] EXCEPT !.st[i] = "put"]]
            /\ UNCHANGED downloadProgress
       ELSE \E elapsed \in BOOLEAN :
              /\ calls' = [calls EXCEPT ![c] = OnAssetFailure(calls[c], i, elapsed)]
              /\ downloadProgress' = ProgressAfter(calls[c], elapsed)
  /\ UNCHANGED <<storeVars, downloadedCategories, downloadingCategory,
                 isInitialDownload, currentVersion, manifestRef, guard, clock,
                 envVars>>

\* cache.put(url, response.clone()) ends, line 161.
WorkerPut(c, i) ==
  /\ calls[c].pc = "pass"
  /\ i \in DOMAIN calls[c].st
  /\ calls[c].st[i] = "put"
  /\ \E putFails \in Failures, elapsed \in BOOLEAN :
       /\ IF putFails
          THEN /\ UNCHANGED cacheContent
               /\ calls' = [calls EXCEPT ![c] = OnAssetFailure(calls[c], i, elapsed)]
          ELSE /\ cacheContent' = [cacheContent EXCEPT
                                     ![calls[c].handle] = @ \cup {calls[c].urls[i]}]
               /\ calls' = [calls EXCEPT ![c] =
                              WorkerFinally([calls[c] EXCEPT !.wroteCache = TRUE],
                                            i, elapsed)]
       /\ downloadProgress' = ProgressAfter(calls[c], elapsed)
  /\ UNCHANGED <<categories, metaVersion, cacheNames, cacheGen,
                 downloadedCategories, downloadingCategory, isInitialDownload,
                 currentVersion, manifestRef, guard, clock, envVars>>

\* Lines 251-270: db.put of the CategoryRecord, the state updates after it
\* and the finally block.
NewRecord(call) ==
  [name |-> call.cat, downloadedAt |-> clock, animalCount |-> Len(call.urls)]

DownloadRecord(c) ==
  /\ calls[c].pc = "record"
  /\ \E storeFails \in Failures :
       IF storeFails
       THEN /\ calls' = [calls EXCEPT ![c] = OnDownloadFailure(calls[c])]
            /\ UNCHANGED <<categories, clock, downloadedCategories,
                           isInitialDownload>>
       ELSE /\ categories' = PutCategory(categories, NewRecord(calls[c]))
            /\ clock' = clock + 1
            /\ downloadedCategories' = downloadedCategories \cup {calls[c].cat}
            /\ isInitialDownload' =
                 IF Cardinality(calls[c].closDl) + 1 >= Len(CATEGORY_PRIORITY)
                 THEN FALSE ELSE isInitialDownload
            /\ calls' = [calls EXCEPT ![c] =
                           ReturnFrom([calls[c] EXCEPT !.wroteRecord = TRUE])]
  /\ downloadingCategory' = NoCategory
  /\ downloadProgress' = Zero
  /\ UNCHANGED <<metaVersion, cacheNames, cacheGen, cacheContent,
                 currentVersion, manifestRef, guard, envVars>>

MaxUrls == 4

DownloadStep ==
  \/ \E c \in Calls, n \in CategoryNames : CallDownloadCategory(c, n)
  \/ \E c \in Calls : CallDownloadAll(c)
  \/ \E c \in Calls : AllResume(c)
  \/ \E c \in Calls : DownloadCheck(c)
  \/ \E c \in Calls : DownloadManifest(c)
  \/ \E c \in Calls : DownloadOpen(c)
  \/ \E c \in Calls, i \in 1..MaxUrls : WorkerMatch(c, i)
  \/ \E c \in Calls, i \in 1..MaxUrls : WorkerFetch(c, i)
  \/ \E c \in Calls, i \in 1..MaxUrls : WorkerPut(c, i)
  \/ \E c \in Calls : DownloadRecord(c)

Next == GuardStep \/ DownloadStep

Spec == Init /\ [][Next]_vars

\* A session of one API invocation in which any operation of the store or
\* the cache inside downloadCategory may fail; it starts as a first session
\* or with a record for the first priority category.
InitFaults ==
  /\ InitSession
  /\ \/ categories = {} /\ metaVersion = NoVersion
     \/ RecordNames(categories) = {CATEGORY_PRIORITY[1]} /\ metaVersion # NoVersion
  /\ manifestUp \in BOOLEAN
  /\ callLimit = 1
  /\ faulty = TRUE
  /\ guardFaulty = FALSE
  /\ concurrency = Concurrency
  /\ hung = 0

SpecFaults == InitFaults /\ [][Next]_vars

\* A session of one API invocation, with the manifest up, in which any
\* operation of the store or the cache inside the try block of
\* checkDownloadStatus may fail.
InitGuardFaults ==
  /\ InitSession
  /\ manifestUp = TRUE
  /\ callLimit = 1
  /\ faulty = FALSE
  /\ guardFaulty = TRUE
  /\ concurrency = Concurrency
  /\ hung = 0

SpecGuardFaults == InitGuardFaults /\ [][Next]_vars

\* The steps of the invocations under way: each is the return of an awaited
\* operation (store, cache, network, timer).  The invocations themselves
\* are decisions of the UI.
DownloadProgress ==
  \/ \E c \in Calls : AllResume(c)
  \/ \E c \in Calls : DownloadCheck(c)
  \/ \E c \in Calls : DownloadManifest(c)
  \/ \E c \in Calls : DownloadOpen(c)
  \/ \E c \in Calls, i \in 1..MaxUrls : WorkerMatch(c, i)
  \/ \E c \in Calls, i \in 1..MaxUrls : WorkerFetch(c, i)
  \/ \E c \in Calls, i \in 1..MaxUrls : WorkerPut(c, i)
  \/ \E c \in Calls : DownloadRecord(c)

\* The faulty session in which every awaited operation of a download
\* eventually returns, successfully or with an error: the manifest is up and
\* the invocation overlaps the Version Guard.
InitLive ==
  /\ InitSession
  /\ \/ categories = {} /\ metaVersion = NoVersion
     \/ RecordNames(categories) = {CATEGORY_PRIORITY[1]} /\ metaVersion # NoVersion
  /\ manifestUp = TRUE
  /\ callLimit = 1
  /\ faulty = TRUE
  /\ guardFaulty = FALSE
  /\ concurrency = Concurrency
  /\ hung = 0

SpecLive == InitLive /\ [][Next]_vars /\ WF_vars(DownloadProgress)

\* ------------------------------------------------- url resolution alone
\* Lines 224-241 of downloadCategory over any content list: the items are
\* drawn from ResolveIds and the priority categories, at most MaxAnimals of
\* them; "owl" has no manifest entry.
MaxAnimals == 3

ResolveIds == {"cow", "dog", "owl"}

RECURSIVE AnimalLists(_)
AnimalLists(n) ==
  IF n = 0 THEN {<<>>}
  ELSE LET shorter == AnimalLists(n - 1)
       IN shorter \cup
          {Append(l, [id |-> i, category |-> k]) :
             l \in {x \in shorter : Len(x) = n - 1},
             i \in ResolveIds, k \in PriorityNames}

InitResolve ==
  /\ categories = {}
  /\ cacheContent = [g \in 0..1 |-> {}]
  /\ metaVersion = NoVersion
  /\ cacheNames = {}
  /\ cacheGen = 0
  /\ downloadedCategories = {}
  /\ downloadingCategory = NoCategory
  /\ downloadProgress = Zero
  /\ isInitialDownload = TRUE
  /\ currentVersion = NoVersion
  /\ manifestRef = NoManifest
  /\ guard = [pc |-> "fetch", remote |-> NoVersion, toDelete |-> <<>>,
              outcome |-> "running", loadedDuring |-> FALSE,
              failedAt |-> "none"]
  /\ calls = [c \in Calls |-> IdleCall]
  /\ clock = 1
  /\ manifestUp \in BOOLEAN
  /\ callLimit = 0
  /\ faulty = FALSE
  /\ guardFaulty = FALSE
  /\ concurrency = Concurrency
  /\ hung = 0
  /\ AudioIdle
  /\ \E animals \in AnimalLists(MaxAnimals), shape \in {"files", "roles"} :
       resolution = [IdleResolution EXCEPT !.animals = animals,
                                           !.shape = shape]

\* const manifest = await loadManifest().catch(() => null), then the loop
\* of lines 227-241 for categoryName.
ResolveApply(categoryName) ==
  /\ ~resolution.applied
  /\ LET manifest == IF manifestUp THEN ServedManifest(resolution.shape)
                     ELSE NoManifest
     IN resolution' =
          [resolution EXCEPT
             !.cat = categoryName,
             !.failed = ~manifestUp,
             !.urls = ResolveFrom(resolution.animals, categoryName, manifest),
             !.applied = TRUE]
  /\ UNCHANGED <<storeVars, downloadedCategories, downloadingCategory,
                 downloadProgress, isInitialDownload, currentVersion,
                 manifestRef, guard, calls, clock, manifestUp, callLimit,
                 faulty, guardFaulty, concurrency, hung, audioVars>>

NextResolve == \E categoryName \in CategoryNames : ResolveApply(categoryName)

SpecResolve == InitResolve /\ [][NextResolve]_vars

\* ---------------------------------------------------- prefetchUrls alone
MaxPoolUrls == 7

\* The url list of a category of several items when the manifest is down.
PoolUrls(n) ==
  SubSeq(ConventionUrls("cow") \o ConventionUrls("dog") \o ConventionUrls("owl"),
         1, Min(n, 12))

\* A downloadCategory invocation about to call prefetchUrls (line 244) with
\* a list of n urls.
PoolCall(n) ==
  [EnterDownload([IdleCall EXCEPT !.kind = "one"], CATEGORY_PRIORITY[1])
     EXCEPT !.urls = PoolUrls(n),
            !.pc = IF n = 0 THEN "record" ELSE "open"]

\* The session when one prefetchUrls pass starts: the Version Guard has
\* ended clean, the cache is empty or holds the assets of the first item.
InitPrefetch ==
  /\ categories = {}
  /\ cacheContent \in {[g \in 0..1 |-> {}],
                       [g \in 0..1 |-> IF g = 0 THEN Range(PoolUrls(4)) ELSE {}]}
  /\ metaVersion = RemoteVersion
  /\ cacheNames = {LioraCache, WorkboxCache, ForeignCache}
  /\ cacheGen = 0
  /\ downloadedCategories = {}
  /\ downloadingCategory = CATEGORY_PRIORITY[1]
  /\ downloadProgress = Zero
  /\ isInitialDownload = TRUE
  /\ currentVersion = RemoteVersion
  /\ manifestRef = NoManifest
  /\ guard = [pc |-> "done", remote |-> RemoteVersion, toDelete |-> <<>>,
              outcome |-> "clean", loadedDuring |-> FALSE,
              failedAt |-> "none"]
  /\ clock = 1
  /\ manifestUp = FALSE
  /\ callLimit = 0
  /\ faulty = FALSE
  /\ guardFaulty = FALSE
  /\ resolution = IdleResolution
  /\ AudioIdle

InitPool ==
  /\ InitPrefetch
  /\ concurrency = Concurrency
  /\ hung = 0
  /\ \E n \in 0..MaxPoolUrls :
       calls = [c \in Calls |-> IF c = 1 THEN PoolCall(n) ELSE IdleCall]

NextPool ==
  \/ \E c \in Calls : DownloadOpen(c)
  \/ \E c \in Calls, i \in 1..MaxPoolUrls : WorkerMatch(c, i)
  \/ \E c \in Calls, i \in 1..MaxPoolUrls : WorkerFetch(c, i)
  \/ \E c \in Calls, i \in 1..MaxPoolUrls : WorkerPut(c, i)
  \/ \E c \in Calls : DownloadRecord(c)

SpecPool == InitPool /\ [][NextPool]_vars

\* One prefetchUrls pass in which the fetch of one url position never
\* returns, while every other awaited operation does; the concurrency
\* option is 1 to MaxWorkers, or the 6 of downloadCategory.
MaxWorkers == 3

MaxHungUrls == 4

InitHung ==
  /\ InitPrefetch
  /\ concurrency \in 1..MaxWorkers \cup {Concurrency}
  /\ \E n \in 1..MaxHungUrls :
       /\ hung \in 1..n
       /\ calls = [c \in Calls |-> IF c = 1 THEN PoolCall(n) ELSE IdleCall]

SpecHung == InitHung /\ [][NextPool]_vars /\ WF_vars(NextPool)

\* ------------------------------------------- sound cache (AudioContext.jsx)
\* MAX_CACHED_SOUNDS of line 16; the source has 40.
MAX_CACHED_SOUNDS == 2

\* The sound files of the session; NoFile is a falsy entry of a source list.
NumFiles == MAX_CACHED_SOUNDS + 1

NoFile == 0

\* The source lists playSound passes on (line 162): one file, one file
\* followed by a falsy entry, or a falsy entry alone.
SoundSources ==
  {<<f>> : f \in 0..NumFiles} \cup {<<f, NoFile>> : f \in 1..NumFiles}

\* cacheKeyFor, lines 18-21: arr.filter(Boolean).join('|'); the joined
\* string is kept as the list of its parts.
cacheKeyFor(sources) == SelectSeq(sources, LAMBDA f : f # NoFile)

\* Map.prototype.set and Map.prototype.delete.
MapSet(map, key, value) ==
  [k \in DOMAIN map \cup {key} |-> IF k = key THEN value ELSE map[k]]

MapDelete(map, key) == [k \in DOMAIN map \ {key} |-> map[k]]

\* The recency list after a request for key.
Touch(order, key) == Append(SelectSeq(order, LAMBDA k : k # key), key)

\* getOrCreateSound, lines 23-101, as playSound calls it (line 163): a hit
\* returns the cached Howl; a miss creates one (preload: true), stores it,
\* pushes its key and shifts the order list when it is over the maximum.
GetOrCreateSound(sources) ==
  LET key == cacheKeyFor(sources)
  IN /\ requested' = Touch(requested, key)
     /\ IF key \in DOMAIN soundCache
        THEN UNCHANGED <<soundCache, cacheOrder, loading>>
        ELSE LET stored == MapSet(soundCache, key, "webaudio")
                 pushed == Append(cacheOrder, key)
             IN /\ loading' = loading \cup {key}
                /\ IF Len(pushed) > MAX_CACHED_SOUNDS
                   THEN /\ cacheOrder' = Tail(pushed)
                        /\ soundCache' = MapDelete(stored, Head(pushed))
                   ELSE /\ cacheOrder' = pushed
                        /\ soundCache' = stored
     /\ UNCHANGED <<storeVars, downloadedCategories, downloadingCategory,
                    downloadProgress, isInitialDownload, currentVersion,
                    manifestRef, guard, calls, clock, manifestUp, callLimit,
                    faulty, guardFaulty, concurrency, hung,
                    resolution>>

\* onloaderror of the first Howl of key, lines 54-84: an html5 Howl is
\* created and stored under the key.
LoadError(key) ==
  /\ key \in loading
  /\ loading' = loading \ {key}
  /\ soundCache' = MapSet(soundCache, key, "html5")
  /\ UNCHANGED <<cacheOrder, requested>>
  /\ UNCHANGED <<storeVars, downloadedCategories, downloadingCategory,
                 downloadProgress, isInitialDownload, currentVersion,
                 manifestRef, guard, calls, clock, manifestUp, callLimit,
                 faulty, guardFaulty, concurrency, hung,
                 resolution>>

\* The load of the first Howl of key ends well: no handler is registered.
LoadEnd(key) ==
  /\ key \in loading
  /\ loading' = loading \ {key}
  /\ UNCHANGED <<soundCache, cacheOrder, requested>>
  /\ UNCHANGED <<storeVars, downloadedCategories, downloadingCategory,
                 downloadProgress, isInitialDownload, currentVersion,
                 manifestRef, guard, calls, clock, manifestUp, callLimit,
                 faulty, guardFaulty, concurrency, hung,
                 resolution>>

\* The AudioProvider at mount; the asset session is left at rest.
InitAudio ==
  /\ categories = {}
  /\ cacheContent = [g \in 0..1 |-> {}]
  /\ metaVersion = NoVersion
  /\ cacheNames = {}
  /\ cacheGen = 0
  /\ downloadedCategories = {}
  /\ downloadingCategory = NoCategory
  /\ downloadProgress = Zero
  /\ isInitialDownload = TRUE
  /\ currentVersion = NoVersion
  /\ manifestRef = NoManifest
  /\ guard = [pc |-> "fetch", remote |-> NoVersion, toDelete |-> <<>>,
              outcome |-> "running", loadedDuring |-> FALSE,
              failedAt |-> "none"]
  /\ calls = [c \in Calls |-> IdleCall]
  /\ clock = 1
  /\ manifestUp = TRUE
  /\ callLimit = 0
  /\ faulty = FALSE
  /\ guardFaulty = FALSE
  /\ concurrency = Concurrency
  /\ hung = 0
  /\ resolution = IdleResolution
  /\ AudioIdle

NextAudio ==
  \/ \E sources \in SoundSources : GetOrCreateSound(sources)
  \/ \E sources \in SoundSources : LoadError(cacheKeyFor(sources))
  \/ \E sources \in SoundSources : LoadEnd(cacheKeyFor(sources))

SpecAudio == InitAudio /\ [][NextAudio]_vars

\* ------------------------------------------------------------------ claims
\* A downloadCategory invocation that has returned (to its caller, or into
\* the pause of downloadAllCategories).
Returned(call) == call.pc \in {"done", "pause"} /\ call.cat # NoCategory

\* An invocation past its precondition check that has not yet written its
\* record.
PastCheck(call) == call.pc \in {"manifest", "open", "pass", "record"}

\* C1: of two downloadCategory invocations for the same category that
\* overlap in time, at most one proceeds past the precondition check, and no
\* asset URL is requested from the network by both.
C1_SingleFetchPass ==
  \A c1, c2 \in Calls :
    (c1 # c2 /\ calls[c1].cat = calls[c2].cat)
    => /\ ~(PastCheck(calls[c1]) /\ PastCheck(calls[c2]))
       /\ calls[c1].netFetched \cap calls[c2].netFetched = {}

\* C2: a downloadCategory(X) invoked after an earlier downloadCategory(X)
\* has resolved fetches no asset and writes nothing to the cache, and when
\* it returns the store holds exactly one record for X.
C2_SecondCallShortCircuits ==
  /\ [](\A c \in Calls :
          calls[c].afterResolved => (~calls[c].fetched /\ ~calls[c].wroteCache))
  /\ [][\A c \in Calls :
          (calls'[c].afterResolved /\ calls[c].pc # "done" /\ calls'[c].pc = "done")
          => Cardinality({r \in categories' : r.name = calls'[c].cat}) = 1]_vars

\* C3: when the Version Guard finishes after a version bump, the marker is
\* the remote version, the categories store is empty and every cache
\* namespace of the app has been deleted (an app cache that exists then was
\* created anew after the deletion).
C3_PurgeLeavesNothing ==
  [][(guard.pc = "putVersion" /\ guard'.pc = "done")
     => /\ metaVersion' = guard.remote
        /\ categories' = {}
        /\ \A n \in cacheNames' :
             IsAppCache(n) => (n = LioraCache /\ cacheGen' > 0)]_vars

\* C4: when the startup manifest fetch fails, no step of the Version Guard
\* changes the marker, the records or the caches, and its last step loads the
\* in-memory set from the stored records, as the matching-version path does.
C4_FailOpen ==
  [][(guard' # guard /\ guard'.outcome = "unknown")
     => /\ UNCHANGED storeVars
        /\ guard'.pc = "done"
             => /\ downloadedCategories' = RecordNames(categories)
                /\ isInitialDownload' =
                     (Cardinality(RecordNames(categories)) < Len(CATEGORY_PRIORITY))]_vars

C4_Witness ==
  /\ guard.pc = "done" /\ guard.outcome = "unknown"
  /\ metaVersion = OldVersion
  /\ categories # {}
  /\ downloadedCategories = RecordNames(categories)

\* C5: a downloadCategory that got past its precondition check returns with
\* its record written whichever asset fetches failed, and the write makes
\* isCategoryDownloaded true for the category.
C5_PartialFailureStillRecords ==
  /\ [](\A c \in Calls :
          (Returned(calls[c]) /\ ~calls[c].shortCircuit) => calls[c].wroteRecord)
  /\ [][\A c \in Calls :
          (~calls[c].wroteRecord /\ calls'[c].wroteRecord)
          => /\ HasRecord(categories', calls'[c].cat)
             /\ calls'[c].cat \in downloadedCategories']_vars

C5_Witness ==
  \E c \in Calls :
    /\ calls[c].pc = "done" /\ calls[c].failed /\ calls[c].wroteRecord
    /\ HasRecord(categories, calls[c].cat)
    /\ IsCategoryDownloaded(calls[c].cat)

\* C6: when a downloadAllCategories call resolves, every category of the
\* priority list is in the downloaded set and getDownloadProgress is 100.
C6_AllDownloadedOnResolve ==
  [][\A c \in Calls :
       (calls'[c].kind = "all" /\ calls[c].pc # "done" /\ calls'[c].pc = "done")
       => /\ PriorityNames \subseteq downloadedCategories'
          /\ FracEq(GetDownloadProgress(downloadedCategories'), Hundred)]_vars

\* C7: within one fetch pass the reported done counts never decrease, and
\* the last report of a pass is done = total, that is 100%.
C7_ProgressMonotone ==
  /\ [](\A c \in Calls :
          (calls[c].pc = "record" /\ Len(calls[c].urls) > 0)
          => calls[c].lastReport = Len(calls[c].urls))
  /\ [][\A c \in Calls :
          /\ (calls[c].pc = "pass" /\ calls'[c].pc \in {"pass", "record"})
             => calls'[c].lastReport >= calls[c].lastReport
          /\ (calls[c].pc = "pass" /\ calls'[c].pc = "record")
             => FracEq(downloadProgress', Hundred)]_vars

\* C7 witness: a pass over four urls has ended with a failed asset and the
\* last report is 4 of 4.
C7_Witness ==
  \E c \in Calls :
    /\ calls[c].pc = "record" /\ Len(calls[c].urls) = 4
    /\ calls[c].lastReport = 4 /\ calls[c].failed

\* C8: getDownloadProgress is 100 * |downloaded| / |priority list| and lies
\* in [0, 100].
C8_ProgressInRange ==
  LET p == GetDownloadProgress(downloadedCategories)
  IN /\ FracEq(p, <<100 * Cardinality(downloadedCategories), Len(CATEGORY_PRIORITY)>>)
     /\ FracLeq(Zero, p)
     /\ FracLeq(p, Hundred)

\* C9: only the reset at the end of a Version Guard purge removes a category
\* from the downloaded set, so getDownloadProgress drops in no other step.
C9_ProgressNeverDrops ==
  [][\/ guard.outcome = "purging" /\ guard'.pc = "putVersion"
     \/ /\ downloadedCategories \subseteq downloadedCategories'
        /\ FracLeq(GetDownloadProgress(downloadedCategories),
                   GetDownloadProgress(downloadedCategories'))]_vars

\* C9 witness: the guard loaded the stored records while a download was in
\* flight, the download has since written its record, and its category is in
\* the downloaded set.
C9_Witness ==
  /\ guard.pc = "done" /\ guard.loadedDuring /\ guard.outcome # "purged"
  /\ \E c \in Calls :
       /\ calls[c].pc = "done" /\ calls[c].wroteRecord
       /\ calls[c].cat \in downloadedCategories

\* The content items of the category a resolution ran for, in list order.
ResolvedItems ==
  SelectSeq(resolution.animals, LAMBDA a : a.category = resolution.cat)

\* C10: when the manifest load failed, the urls resolved for a category
\* are, item by item in list order, the four convention paths of the item's
\* id and nothing else: 4 * (number of items of the category) urls.
C10_FallbackUrls ==
  (resolution.applied /\ resolution.failed)
  => /\ Len(resolution.urls) = 4 * Len(ResolvedItems)
     /\ \A k \in 1..Len(ResolvedItems) :
          LET id == ResolvedItems[k].id
          IN /\ resolution.urls[4 * k - 3] = <<"/assets/images/toy_mode/", id, ".webp">>
             /\ resolution.urls[4 * k - 2] = <<"/assets/images/real_mode/", id, ".webp">>
             /\ resolution.urls[4 * k - 1] = <<"/assets/audio/names/", id, "_name.mp3">>
             /\ resolution.urls[4 * k] = <<"/assets/audio/facts/", id, "_fact.mp3">>

\* C10 witness: the manifest load failed for a category with two items
\* among three, and eight urls were resolved.
C10_Witness ==
  /\ resolution.applied /\ resolution.failed
  /\ Len(resolution.animals) = 3
  /\ Len(ResolvedItems) = 2
  /\ Len(resolution.urls) = 8

\* C11: when the manifest loads with the shape assets[id] = role -> path,
\* every path of the map of an item of the category that has an entry is
\* resolved with the asset base path in front, and none of the four
\* convention urls is resolved for that item.
C11_ManifestUrls ==
  (resolution.applied /\ ~resolution.failed /\ resolution.shape = "roles")
  => \A k \in 1..Len(ResolvedItems) :
       LET id == ResolvedItems[k].id
           resolved == {resolution.urls[i] : i \in 1..Len(resolution.urls)}
       IN id \in DOMAIN RoleManifest.assets
          => /\ \A role \in DOMAIN RoleManifest.assets[id] :
                  <<"/assets/", RoleManifest.assets[id][role], "">> \in resolved
             /\ <<"/assets/images/toy_mode/", id, ".webp">> \notin resolved
             /\ <<"/assets/images/real_mode/", id, ".webp">> \notin resolved
             /\ <<"/assets/audio/names/", id, "_name.mp3">> \notin resolved
             /\ <<"/assets/audio/facts/", id, "_fact.mp3">> \notin resolved

\* C12: no downloadCategory or downloadAllCategories invocation ends by
\* rejecting, whichever of the manifest fetch, the asset fetches, the cache
\* operations and the store operations fail; a fault that ends a download
\* returns normally and leaves the store, the caches and the downloaded set
\* as they were, so the category is simply not added.
C12_NeverRejects ==
  /\ [](\A c \in Calls : calls[c].pc # "rejected")
  /\ [][\A c \in Calls :
          (~calls[c].aborted /\ calls'[c].aborted)
          => /\ calls'[c].pc \in {"done", "pause"}
             /\ ~calls'[c].wroteRecord
             /\ UNCHANGED <<storeVars, downloadedCategories>>
             /\ downloadingCategory' = NoCategory]_vars

\* C12 witness: a downloadAllCategories call has resolved in a session
\* without manifest although its last download was ended by a store or
\* cache fault after an asset had failed; the category is not downloaded.
C12_Witness ==
  \E c \in Calls :
    /\ calls[c].kind = "all" /\ calls[c].pc = "done"
    /\ calls[c].aborted /\ calls[c].failed
    /\ ~manifestUp
    /\ ~IsCategoryDownloaded(calls[c].cat)

\* C13: the initial-sync flag goes from true (sync still needed) to false
\* (sync complete) only in a state where every category of the priority
\* list has a record in the store.
C13_SyncCompleteOnlyWithAllRecords ==
  [][(isInitialDownload /\ ~isInitialDownload')
     => PriorityNames \subseteq RecordNames(categories')]_vars

\* C14: when a Version Guard purge completes (its marker write returns),
\* getDownloadProgress is 0, isCategoryDownloaded is false for every
\* category and the initial-download flag is true.
C14_StateAfterPurge ==
  [][(guard.pc = "putVersion" /\ guard'.pc = "done")
     => /\ FracEq(GetDownloadProgress(downloadedCategories'), Zero)
        /\ \A n \in CategoryNames : n \notin downloadedCategories'
        /\ isInitialDownload' = TRUE]_vars

\* C15: the startup version check has finished before any downloadCategory
\* invocation takes a step past its invocation (the store read of its
\* precondition check, a short-circuit on a record, an asset fetch, the
\* record write), so no record stored under an older version is trusted.
C15_GuardRunsFirst ==
  /\ [][\A c \in Calls :
          (calls[c].pc # "idle" /\ calls'[c] # calls[c]) => guard.pc = "done"]_vars
  /\ [][\A c \in Calls :
          (~calls[c].shortCircuit /\ calls'[c].shortCircuit)
          => ~(metaVersion = OldVersion /\ guard.outcome \in {"running", "purging"})]_vars

\* C16: when a download none of whose assets failed writes its record,
\* every url it resolved is in the cache that liora-assets names then, also
\* when the download overlaps a Version Guard purge.
C16_RecordImpliesCached ==
  [][\A c \in Calls :
       (~calls[c].wroteRecord /\ calls'[c].wroteRecord /\ ~calls[c].failed)
       => \A i \in 1..Len(calls[c].urls) :
            /\ LioraCache \in cacheNames'
            /\ calls[c].urls[i] \in cacheContent'[cacheGen']]_vars

\* C17: a stored CategoryRecord is never overwritten: a record whose name
\* is still in the store after a step is the same record as before it, and
\* no download writes a record for a category that has one.
C17_RecordNeverMutated ==
  /\ [][\A r \in categories :
          (\E r2 \in categories' : r2.name = r.name) => r \in categories']_vars
  /\ [][\A c \in Calls :
          (~calls[c].wroteRecord /\ calls'[c].wroteRecord)
          => ~HasRecord(categories, calls[c].cat)]_vars

\* C18 as stated: a downloadCategory invocation in its fetch pass
\* eventually returns with its record written, when every awaited operation
\* returns, successfully or with an error.
C18_PassLeadsToRecord ==
  \A c \in Calls :
    (calls[c].pc = "pass") ~> (Returned(calls[c]) /\ calls[c].wroteRecord)

\* C18 amended: the invocation eventually returns, with its record written
\* unless the store write of lines 251-257 itself failed.
C18_PassLeadsToReturn ==
  \A c \in Calls :
    (calls[c].pc = "pass")
      ~> (Returned(calls[c]) /\ (calls[c].wroteRecord \/ calls[c].aborted))

\* C18 witness: a pass in which a cache operation failed has ended and the
\* record is written, while the Version Guard is still under way.
C18_Witness ==
  \E c \in Calls :
    /\ Returned(calls[c]) /\ calls[c].wroteRecord
    /\ calls[c].failed /\ ~calls[c].fetched
    /\ guard.pc # "done"

\* The place of key in the recency list.
RequestRank(key) == CHOOSE i \in 1..Len(requested) : requested[i] = key

\* C19: the sound cache map never holds more than MAX_CACHED_SOUNDS sounds,
\* and it holds as many entries as the eviction-order list has keys.
C19_SoundCacheBounded ==
  /\ Cardinality(DOMAIN soundCache) <= MAX_CACHED_SOUNDS
  /\ Cardinality(DOMAIN soundCache) = Len(cacheOrder)

\* C20: an insertion evicts the least recently used sound: every sound
\* that stays cached was requested after the evicted one.
C20_EvictsLeastRecentlyUsed ==
  [][\A evict \in DOMAIN soundCache :
       evict \notin DOMAIN soundCache'
       => \A k \in DOMAIN soundCache \ {evict} :
            RequestRank(evict) < RequestRank(k)]_vars

\* C21: the Version Guard purges if and only if a marker is stored and
\* differs from the remote version.  A guard step changes records or caches
\* only then; with an equal marker it writes nothing, with no marker it
\* writes the marker alone; with a differing marker it ends purged, the
\* records of earlier sessions gone.
C21_PurgeIffMismatch ==
  /\ [][(guard' # guard /\ guard.remote # NoVersion)
          => /\ <<categories, cacheNames, cacheGen, cacheContent>>'
                   # <<categories, cacheNames, cacheGen, cacheContent>>
                => (metaVersion # NoVersion /\ metaVersion # guard.remote)
             /\ metaVersion = guard.remote => UNCHANGED storeVars
             /\ metaVersion = NoVersion
                => /\ UNCHANGED <<categories, cacheNames, cacheGen, cacheContent>>
                   /\ metaVersion' \in {NoVersion, guard.remote}
                   /\ guard.pc = "putFirst" => metaVersion' = guard.remote
             /\ (metaVersion # NoVersion /\ metaVersion # guard.remote)
                => guard'.outcome \in {"purging", "purged"}]_vars
  /\ [](guard.outcome = "purged"
          => /\ metaVersion = guard.remote
             /\ \A r \in categories : r.downloadedAt # 0)

\* C21 witness: a purge has run to its end and left neither record nor
\* asset cache, while a download was under way.
C21_Witness ==
  /\ guard.pc = "done" /\ guard.outcome = "purged"
  /\ categories = {} /\ LioraCache \notin cacheNames
  /\ \E c \in Calls : calls[c].pc = "check"

\* How far a url position has come in its worker's loop body.
StageRank(stage) ==
  CASE stage = "queued" -> 0
    [] stage = "match" -> 1
    [] stage = "fetch" -> 2
    [] stage = "put" -> 3
    [] stage = "done" -> 4

\* C22: within one call every position of the url list is taken exactly
\* once: the positions taken are those below the shared index, a position
\* never returns to an earlier stage (none is taken again, a failed fetch
\* is not repeated), each counts once in done, and the pass ends with all
\* of them attempted.
C22_EachPositionOnce ==
  /\ [](\A c \in Calls :
          calls[c].pc = "pass"
          => /\ \A i \in 1..Len(calls[c].urls) :
                  calls[c].st[i] = "queued" <=> i > calls[c].nextIndex
             /\ calls[c].done =
                  Cardinality({i \in 1..Len(calls[c].urls) : calls[c].st[i] = "done"}))
  /\ [](\A c \in Calls :
          (calls[c].pc = "record" /\ calls[c].urls # <<>>)
          => /\ calls[c].done = Len(calls[c].urls)
             /\ \A i \in 1..Len(calls[c].urls) : calls[c].st[i] = "done")
  /\ [][\A c \in Calls :
          (calls[c].pc = "pass" /\ calls'[c].pc \in {"pass", "record"})
          => \A i \in 1..Len(calls[c].urls) :
               /\ StageRank(calls'[c].st[i]) >= StageRank(calls[c].st[i])
               /\ calls'[c].st[i] = "fetch" /\ calls[c].st[i] # "fetch"
                  => calls[c].urls[i] \notin calls[c].netFetched]_vars

\* C22 witness: a pass over more urls than workers has ended with a failed
\* fetch among them.
C22_Witness ==
  \E c \in Calls :
    /\ calls[c].pc = "record" /\ calls[c].failed
    /\ Len(calls[c].urls) > concurrency
    /\ calls[c].done = Len(calls[c].urls)

\* The url positions of a call whose fetch(url) is under way.
InFlight(call) == {i \in 1..Len(call.st) : call.st[i] = "fetch"}

\* C23: at every moment of a call at most 6 asset fetches are in flight,
\* and at most as many as the call has urls.
C23_BoundedParallelism ==
  \A c \in Calls :
    /\ Cardinality(InFlight(calls[c])) <= 6
    /\ Cardinality(InFlight(calls[c])) <= Len(calls[c].urls)

\* C23 witness: six fetches are in flight while a seventh url waits.
C23_Witness ==
  \E c \in Calls :
    /\ Cardinality(InFlight(calls[c])) = 6
    /\ \E i \in 1..Len(calls[c].urls) : calls[c].st[i] = "queued"

\* The fetch of the hung url position of a call is under way.
Hanging(call) ==
  call.pc = "pass" /\ hung \in DOMAIN call.st /\ call.st[hung] = "fetch"

\* C24: while the hung fetch is under way the call has not resolved and
\* has written no record, and with at least two workers every other url
\* position is eventually attempted.
C24_HungStallsOneSlot ==
  \A c \in Calls :
    /\ [](Hanging(calls[c])
            => /\ ~Returned(calls[c]) /\ ~calls[c].wroteRecord
               /\ ~HasRecord(categories, calls[c].cat))
    /\ (Hanging(calls[c]) /\ PoolSize(Len(calls[c].urls)) >= 2)
         ~> (/\ Hanging(calls[c])
             /\ \A i \in DOMAIN calls[c].st : i # hung => calls[c].st[i] # "queued")

\* C24 witness: the hung fetch is under way, two workers had four urls,
\* and the other three are finished.
C24_Witness ==
  \E c \in Calls :
    /\ Hanging(calls[c]) /\ concurrency = 2 /\ Len(calls[c].urls) = 4
    /\ hung = 1
    /\ \A i \in DOMAIN calls[c].st : i # hung => calls[c].st[i] = "done"

\* C25: a downloadAllCategories invocation takes the categories one at a
\* time in priority order: it enters the download of a category only from
\* its start or from the pause after the previous download returned, at a
\* later priority index, having left out only categories its set held.
C25_AllSequentialInOrder ==
  /\ [](\A c \in Calls :
          (calls[c].kind = "all" /\ calls[c].pc \notin {"idle", "done"})
          => /\ calls[c].loop \in 1..Len(CATEGORY_PRIORITY)
             /\ calls[c].cat = CATEGORY_PRIORITY[calls[c].loop])
  /\ [][\A c \in Calls :
          (calls'[c].kind = "all" /\ calls'[c].pc = "check" /\ calls[c].pc # "check")
          => /\ calls[c].pc \in {"idle", "pause"}
             /\ calls'[c].loop > calls[c].loop
             /\ \A k \in (calls[c].loop + 1)..(calls'[c].loop - 1) :
                  CATEGORY_PRIORITY[k] \in calls'[c].closDl]_vars

\* C25 witness: the invocation is in the fetch pass of the second priority
\* category after it wrote the record of the first.
C25_Witness ==
  \E c \in Calls :
    /\ calls[c].kind = "all" /\ calls[c].pc = "pass" /\ calls[c].loop = 2
    /\ calls[c].closDl = {}
    /\ \E r \in categories : r.name = CATEGORY_PRIORITY[1] /\ r.downloadedAt > 0

\* C26: when the deletion of one matching cache failed during a purge,
\* every other matching cache has still been deleted by the time the guard
\* ends (liora-assets may have been created anew by a download since).
C26_OtherCachesStillDeleted ==
  (guard.pc = "done" /\ IsAppCache(guard.failedAt))
  => \A n \in cacheNames :
       (IsAppCache(n) /\ n # guard.failedAt) => (n = LioraCache /\ cacheGen > 0)

\* C27: when the manifest can be fetched, loadManifest issues one network
\* fetch in the session: no two fetches of it are under way together, none
\* is issued once a manifest is memoized, and every call that has its
\* manifest has that one.
C27_ManifestFetchedOnce ==
  /\ [](manifestUp
          => /\ Cardinality({c \in Calls : calls[c].pc = "manifest"}) <= 1
             /\ \A c \in Calls :
                  calls[c].pc \in {"open", "pass", "record"}
                  => calls[c].manifest = Manifest)
  /\ [][\A c \in Calls :
          (calls[c].pc # "manifest" /\ calls'[c].pc = "manifest")
          => manifestRef = NoManifest]_vars

\* C28: every category of the in-memory downloaded set has a record in
\* the store.
C28_DownloadedSetHasRecords ==
  \A n \in downloadedCategories : HasRecord(categories, n)

\* What guard.failedAt holds when an operation of the purge failed.
PurgeFailures ==
  {"clearCategories", "clearAnimals", "cacheKeys", "putVersion",
   LioraCache, WorkboxCache}

\* C29: a stored marker is changed only by the write that follows a
\* complete purge, with the records of earlier sessions and the matching
\* caches gone; after a failed purge the stored marker still differs from
\* the remote version; and a guard that ended purged left no record of an
\* earlier session beside the new marker.
C29_MarkerAfterPurge ==
  /\ [][(metaVersion # NoVersion /\ metaVersion' # metaVersion)
          => /\ guard.pc = "putVersion"
             /\ metaVersion' = guard.remote
             /\ \A r \in categories' : r.downloadedAt # 0
             /\ WorkboxCache \notin cacheNames'
             /\ LioraCache \in cacheNames' => cacheGen' > 0]_vars
  /\ [](guard.failedAt \in PurgeFailures
          => VersionMismatch(metaVersion, guard.remote))
  /\ []((guard.outcome = "purged" /\ metaVersion = guard.remote)
          => \A r \in categories : r.downloadedAt # 0)

\* C29 witness: a purge failed part way, at the deletion of a cache, the
\* guard has ended, and the store holds the old marker with no record.
C29_Witness ==
  /\ guard.pc = "done" /\ guard.failedAt = WorkboxCache
  /\ metaVersion = OldVersion /\ categories = {}

\* C30: while some invocation is in its fetch pass, downloadingCategory
\* names a category an invocation is downloading; while no invocation is
\* past its precondition check, downloadingCategory is null and the
\* progress is 0.
C30_DownloadingCategoryConsistent ==
  /\ (\E c \in Calls : calls[c].pc = "pass")
     => /\ downloadingCategory # NoCategory
        /\ \E c \in Calls :
             PastCheck(calls[c]) /\ calls[c].cat = downloadingCategory
  /\ (\A c \in Calls : ~PastCheck(calls[c]))
     => /\ downloadingCategory = NoCategory
        /\ FracEq(downloadProgress, Zero)

====
